---- MODULE Spec2Model ----
(***************************************************************************)
(* Model of src/encode.py: the AmneziaWG configuration encoder.            *)
(*                                                                         *)
(* Text is a sequence of atoms.  An atom is either one of the characters   *)
(* the code inspects (space, tab, newline, '#', '=', ',', ':', '/', '[',   *)
(* ']') or a maximal run of other characters ("PrivateKey", "10.8.0.2").   *)
(* The code only ever trims white space, tests for and splits at those     *)
(* characters and compares whole strings, so on such sequences every       *)
(* string operation of the code is computed exactly.                       *)
(*                                                                         *)
(* A dict is a sequence of [k, v] entries in insertion order (Python 3.7+  *)
(* dict semantics: assigning an existing key keeps its position).          *)
(***************************************************************************)
EXTENDS Naturals, Sequences, FiniteSets, TLC

VARIABLES fs, data, pc, error, heap, wireguard_data, parsed, builder,
          unpacked, formatted, json_out, token

vars == <<fs, data, pc, error, heap, wireguard_data, parsed, builder,
          unpacked, formatted, json_out, token>>

\* ------------------------------------------------------------------ bounds
\* number of edits (a line removed, a line inserted) that lead from the base
\* configuration file to the file that is parsed
MaxEdits == 1

\* -------------------------------------------------------- string primitives
NL == "\n"

\* str.strip() without arguments removes leading and trailing white space
IsSpace(c) == c \in {" ", "\t", "\r", NL}

RECURSIVE LStrip(_)
LStrip(s) == IF s # << >> /\ IsSpace(Head(s)) THEN LStrip(Tail(s)) ELSE s

RECURSIVE RStrip(_)
RStrip(s) ==
    IF s # << >> /\ IsSpace(s[Len(s)]) THEN RStrip(SubSeq(s, 1, Len(s) - 1)) ELSE s

strip(s) == RStrip(LStrip(s))

\* c in s
Contains(s, c) == \E i \in 1..Len(s) : s[i] = c

\* s.find(c) + 1: position of the first c in s, 0 when there is none
RECURSIVE FindFrom(_, _, _)
FindFrom(s, c, i) ==
    IF i > Len(s) THEN 0
    ELSE IF s[i] = c THEN i
    ELSE FindFrom(s, c, i + 1)

Find(s, c) == FindFrom(s, c, 1)

\* s.split(c): all the pieces between occurrences of c (at least one piece)
RECURSIVE split(_, _)
split(s, c) ==
    LET p == Find(s, c)
    IN  IF p = 0 THEN << s >>
        ELSE << SubSeq(s, 1, p - 1) >> \o split(SubSeq(s, p + 1, Len(s)), c)

\* s.split(c, 1): split at the first c only (s itself when c is absent)
split1(s, c) ==
    LET p == Find(s, c)
    IN  IF p = 0 THEN << s >>
        ELSE << SubSeq(s, 1, p - 1), SubSeq(s, p + 1, Len(s)) >>

\* sep.join(parts)
RECURSIVE join(_, _)
join(sep, parts) ==
    IF parts = << >> THEN << >>
    ELSE IF Len(parts) = 1 THEN parts[1]
    ELSE parts[1] \o sep \o join(sep, Tail(parts))

\* s.replace('\n', '\\n'): every newline becomes the two characters \ and n
\* (the pieces between the newlines, joined by the replacement)
replace_newlines(s) == join(<< "\\", "n" >>, split(s, NL))

\* --------------------------------------------------------------- dict model
DictHas(d, k) == \E i \in 1..Len(d) : d[i].k = k

DictIndex(d, k) == CHOOSE i \in 1..Len(d) : d[i].k = k

\* d[k]
DictGet(d, k) == d[DictIndex(d, k)].v

\* d.get(k, default)
DictGetDefault(d, k, default) == IF DictHas(d, k) THEN DictGet(d, k) ELSE default

\* d[k] = v
DictSet(d, k, v) ==
    IF DictHas(d, k)
    THEN [d EXCEPT ![DictIndex(d, k)] = [k |-> k, v |-> v]]
    ELSE Append(d, [k |-> k, v |-> v])

\* d.update(other)
RECURSIVE DictUpdate(_, _)
DictUpdate(d, other) ==
    IF other = << >> THEN d
    ELSE DictUpdate(DictSet(d, Head(other).k, Head(other).v), Tail(other))

DictKeys(d) == { d[i].k : i \in 1..Len(d) }

\* ---------------------------------------------------------------- constants
AMNEZIA_PROTOCOL_PARAMS ==
    << [k |-> << "Jc" >>,   v |-> << "7" >>],
       [k |-> << "Jmin" >>, v |-> << "50" >>],
       [k |-> << "Jmax" >>, v |-> << "1000" >>],
       [k |-> << "S1" >>,   v |-> << "116" >>],
       [k |-> << "S2" >>,   v |-> << "61" >>],
       [k |-> << "H1" >>,   v |-> << "1139437039" >>],
       [k |-> << "H2" >>,   v |-> << "1088834137" >>],
       [k |-> << "H3" >>,   v |-> << "977318325" >>],
       [k |-> << "H4" >>,   v |-> << "1583407056" >>] >>

DNS_SERVERS == [primary |-> << "1.1.1.1" >>, secondary |-> << "1.0.0.1" >>]

SectionInterface == << "[", "Interface", "]" >>
SectionPeer == << "[", "Peer", "]" >>

required_interface_fields == << << "PrivateKey" >>, << "Address" >> >>
required_peer_fields == << << "PublicKey" >>, << "Endpoint" >>, << "AllowedIPs" >> >>

\* ------------------------------------------------------------------- parser
\* ParseLine with first-write-wins: a key already in the record keeps its value
ParseLine_FirstWins(st, raw) ==
    LET line == strip(raw)
    IN  IF line = << >> \/ Head(line) = "#" THEN st
        ELSE IF line = SectionInterface THEN [st EXCEPT !.parsing_mode = "interface"]
        ELSE IF line = SectionPeer THEN [st EXCEPT !.parsing_mode = "peer"]
        ELSE IF ~Contains(line, "=") THEN st
        ELSE LET kv == split1(line, "=")
                 key == strip(kv[1])
                 value == strip(kv[2])
             IN  IF st.parsing_mode = "interface"
                 THEN IF DictHas(st.interface_data, key) THEN st
                      ELSE [st EXCEPT !.interface_data = DictSet(@, key, value)]
                 ELSE IF st.parsing_mode = "peer"
                 THEN IF DictHas(st.peer_data, key) THEN st
                      ELSE [st EXCEPT !.peer_data = DictSet(@, key, value)]
                 ELSE st

\* One iteration of the loop over the lines (encode.py 183-208)
ParseLine(st, raw) ==
    LET line == strip(raw)
    IN  IF line = << >> \/ Head(line) = "#" THEN st
        ELSE IF line = SectionInterface THEN [st EXCEPT !.parsing_mode = "interface"]
        ELSE IF line = SectionPeer THEN [st EXCEPT !.parsing_mode = "peer"]
        ELSE IF ~Contains(line, "=") THEN st
        ELSE LET kv == split1(line, "=")
                 key == strip(kv[1])
                 value == strip(kv[2])
             IN  IF st.parsing_mode = "interface"
                 THEN [st EXCEPT !.interface_data = DictSet(@, key, value)]
                 ELSE IF st.parsing_mode = "peer"
                 THEN [st EXCEPT !.peer_data = DictSet(@, key, value)]
                 ELSE st

RECURSIVE ParseLines(_, _)
ParseLines(st, lines) ==
    IF lines = << >> THEN st
    ELSE ParseLines(ParseLine(st, Head(lines)), Tail(lines))

\* The scan of the whole text (encode.py 176-208)
Scan(text) ==
    ParseLines([parsing_mode |-> "", interface_data |-> << >>, peer_data |-> << >>],
               split(text, NL))

\* The first required field that is absent, << >> when all are there
RECURSIVE FirstMissing(_, _)
FirstMissing(fields, d) ==
    IF fields = << >> THEN << >>
    ELSE IF ~DictHas(d, Head(fields)) THEN << Head(fields) >>
    ELSE FirstMissing(Tail(fields), d)

\* VerifyRequired that stops after the first required field of each section
VerifyRequired_FirstOnly(st) ==
    LET mi == FirstMissing(<< required_interface_fields[1] >>, st.interface_data)
        mp == FirstMissing(<< required_peer_fields[1] >>, st.peer_data)
    IN  IF mi # << >> THEN << [section |-> "interface", field |-> mi[1]] >>
        ELSE IF mp # << >> THEN << [section |-> "peer", field |-> mp[1]] >>
        ELSE << >>

\* Verification of the required fields (encode.py 210-220): << >> or the
\* ValueError raised
VerifyRequired(st) ==
    LET mi == FirstMissing(required_interface_fields, st.interface_data)
        mp == FirstMissing(required_peer_fields, st.peer_data)
    IN  IF mi # << >> THEN << [section |-> "interface", field |-> mi[1]] >>
        ELSE IF mp # << >> THEN << [section |-> "peer", field |-> mp[1]] >>
        ELSE << >>

\* --------------------------------------------------------------- serializer
\* InterfaceValue that truncates every value holding a comma, whatever the key
InterfaceValue_AnyKey(key, value) ==
    IF Contains(value, ",") THEN split(value, ",")[1] ELSE value

\* The value written for an Interface key (encode.py 248-251)
InterfaceValue(key, value) ==
    LET v1 == IF key = << "Address" >> /\ Contains(value, ",")
              THEN split(value, ",")[1] ELSE value
    IN  IF key = << "DNS" >> /\ Contains(v1, ",") THEN split(v1, ",")[1] ELSE v1

\* f"{key} = {value}"
KeyValueLine(key, value) == key \o << " ", "=", " " >> \o value

RECURSIVE InterfaceLines(_)
InterfaceLines(d) ==
    IF d = << >> THEN << >>
    ELSE << KeyValueLine(Head(d).k, InterfaceValue(Head(d).k, Head(d).v)) >>
         \o InterfaceLines(Tail(d))

RECURSIVE PeerLines(_)
PeerLines(d) ==
    IF d = << >> THEN << >>
    ELSE << KeyValueLine(Head(d).k, Head(d).v) >> \o PeerLines(Tail(d))

\* unpack_config_data (encode.py 233-260); packed_config_data holds the two
\* dicts themselves
unpack_config_data(packed_config_data) ==
    join(<< NL >>,
         << SectionInterface >>
         \o InterfaceLines(packed_config_data.Interface)
         \o << << NL >> \o SectionPeer >>
         \o PeerLines(packed_config_data.Peer))

\* ------------------------------------------------------------------ builder
\* The two dicts a top-level dict refers to
Deref(h, config) == [Interface |-> h[config.Interface], Peer |-> h[config.Peer]]

\* dict.copy() of the top-level dict: a new dict holding the same two references
config_copy(config_data) ==
    [Interface |-> config_data.Interface, Peer |-> config_data.Peer]

\* add_protocol_parameters (encode.py 263-270): updates, in the heap, the dict
\* that config_data['Interface'] refers to
add_protocol_parameters(h, config_data) ==
    [h EXCEPT ![config_data.Interface] = DictUpdate(@, AMNEZIA_PROTOCOL_PARAMS)]

\* get_formatted_config (encode.py 297-306): the heap it leaves, the argument
\* and the result of its call of unpack_config_data, and its return value
get_formatted_config(h, config_data) ==
    LET copy == config_copy(config_data)
        h2 == add_protocol_parameters(h, copy)
        arg == Deref(h2, copy)
        out == unpack_config_data(arg)
    IN  [heap |-> h2,
         unpacked |-> [Interface |-> arg.Interface, Peer |-> arg.Peer, out |-> out],
         ret |-> replace_newlines(out)]

\* get_client_ip (encode.py 308-315)
get_client_ip(h, config_data) ==
    split(split(DictGet(h[config_data.Interface], << "Address" >>), ",")[1], "/")[1]

\* EndpointHostPort with split(':') in place of split(':', 1): the port is the
\* text between the first and the second ':'
EndpointHostPort_SplitAll(endpoint) ==
    IF Contains(endpoint, ":")
    THEN LET hp == split(endpoint, ":") IN [host_name |-> hp[1], port |-> hp[2]]
    ELSE [host_name |-> endpoint, port |-> << "39547" >>]

\* The endpoint split (encode.py 331-336)
EndpointHostPort(endpoint) ==
    IF Contains(endpoint, ":")
    THEN LET hp == split1(endpoint, ":") IN [host_name |-> hp[1], port |-> hp[2]]
    ELSE [host_name |-> endpoint, port |-> << "39547" >>]

Param(name) == DictGet(AMNEZIA_PROTOCOL_PARAMS, << name >>)

\* generate_json (encode.py 324-390): the heap it leaves, what its call of
\* get_formatted_config did, and, as ret, the value that json.dumps serialises;
\* last_config is the dict whose own json.dumps text is embedded as a string
generate_json(h, b) ==
    LET cd == b.config_data
        client_ip == get_client_ip(h, cd)
        client_priv_key == DictGet(h[cd.Interface], << "PrivateKey" >>)
        fc == get_formatted_config(h, cd)
        config_str == fc.ret
        h2 == fc.heap
        hp == EndpointHostPort(DictGet(h2[cd.Peer], << "Endpoint" >>))
        psk_key == DictGetDefault(h2[cd.Peer], << "PresharedKey" >>, << >>)
        server_pub_key == DictGet(h2[cd.Peer], << "PublicKey" >>)
        last_config ==
            [H1 |-> Param("H1"), H2 |-> Param("H2"), H3 |-> Param("H3"),
             H4 |-> Param("H4"), Jc |-> Param("Jc"), Jmax |-> Param("Jmax"),
             Jmin |-> Param("Jmin"), S1 |-> Param("S1"), S2 |-> Param("S2"),
             client_ip |-> client_ip,
             client_priv_key |-> client_priv_key,
             client_pub_key |-> << "0" >>,
             config |-> config_str,
             hostName |-> hp.host_name,
             port |-> hp.port,
             psk_key |-> psk_key,
             server_pub_key |-> server_pub_key]
        json_value ==
            [containers |->
               << [awg |->
                     [H1 |-> Param("H1"), H2 |-> Param("H2"), H3 |-> Param("H3"),
                      H4 |-> Param("H4"), Jc |-> Param("Jc"), Jmax |-> Param("Jmax"),
                      Jmin |-> Param("Jmin"), S1 |-> Param("S1"), S2 |-> Param("S2"),
                      last_config |-> last_config,
                      port |-> hp.port,
                      transport_proto |-> << "udp" >>],
                   container |-> << "amnezia-awg" >>] >>,
             defaultContainer |-> << "amnezia-awg" >>,
             description |-> b.description,
             dns1 |-> DNS_SERVERS.primary,
             dns2 |-> DNS_SERVERS.secondary,
             hostName |-> hp.host_name]
    IN  [heap |-> h2, unpacked |-> fc.unpacked, formatted |-> config_str,
         ret |-> json_value]

\* pack (encode.py 88-121).  json.loads accepts every text json.dumps wrote;
\* qCompress and toBase64 are PyQt6 library calls, kept as an uninterpreted
\* term over the text they are given
pack(data_str) == [base64url |-> [qCompress |-> data_str]]

\* build (encode.py 287-295): what its call of generate_json did and, as ret,
\* the token
build(h, b) ==
    LET g == generate_json(h, b)
    IN  [heap |-> g.heap, unpacked |-> g.unpacked, formatted |-> g.formatted,
         json |-> g.ret, ret |-> pack(g.ret)]

\* ------------------------------------------------------------------- inputs
BaseLines ==
    << << "[", "Interface", "]" >>,
       << "PrivateKey", "=", "privA" >>,
       << "Address", " ", "=", " ", "10.8.0.2", "/", "24" >>,
       << " ", "[", "Peer", "]", "\r" >>,
       << "\t", "PublicKey", " ", "=", " ", "pubB", " " >>,
       << "Endpoint", " ", "=", " ", "1.2.3.4", ":", "51820" >>,
       << "AllowedIPs", " ", "=", " ", "0.0.0.0", "/", "0", ",", " ",
          "10.0.0.0", "/", "8" >> >>

ExtraLines ==
    { << "Address", " ", "=", " ", "10.0.0.2", "/", "32", ",", "10.0.0.3", "/", "32" >>,
      << "Address", " ", "=", " ", "/", "24" >>,
      << "Address", " ", "=", " ", ",", "10.0.0.1" >>,
      << "Address", " ", "=" >>,
      << "=", " ", "value" >>,
      << "[", "Opt", "=", "a", ",", "b", "]" >>,
      << "[", "Other", "]" >>,
      << "#", " ", "PrivateKey", " ", "=", " ", "hidden" >>,
      << " " >>,
      << "junk" >>,
      << "Jc", " ", "=", " ", "9" >>,
      << "DNS", " ", "=", " ", "1.1.1.1", ",", " ", "8.8.8.8" >>,
      << "Endpoint", " ", "=", " ", "vpn.example.com" >>,
      << "Endpoint", " ", "=", " ", "host", ":", "10", ":", "20" >>,
      << "[", "Interface", "]" >> }

RemoveAt(seq, p) == SubSeq(seq, 1, p - 1) \o SubSeq(seq, p + 1, Len(seq))

InsertAt(seq, p, e) == SubSeq(seq, 1, p) \o << e >> \o SubSeq(seq, p + 1, Len(seq))

\* An edit of a file: none, the removal of line p, or the insertion of the
\* line e after the first p lines
Edits ==
    { [op |-> "none", p |-> 0, e |-> << >>] }
    \cup { [op |-> "remove", p |-> p, e |-> << >>] :
             p \in 1..(Len(BaseLines) + MaxEdits) }
    \cup { [op |-> "insert", p |-> p, e |-> e] :
             p \in 0..(Len(BaseLines) + MaxEdits), e \in ExtraLines }

Edit(t, ed) ==
    IF ed.op = "remove" /\ ed.p <= Len(t) THEN RemoveAt(t, ed.p)
    ELSE IF ed.op = "insert" /\ ed.p <= Len(t) THEN InsertAt(t, ed.p, ed.e)
    ELSE t

RECURSIVE Edited(_, _, _)
Edited(t, eds, i) ==
    IF i > MaxEdits THEN t ELSE Edited(Edit(t, eds[i]), eds, i + 1)

\* The files: the base file after at most MaxEdits edits
IsFile(text) ==
    \E eds \in [1..MaxEdits -> Edits] :
       text = join(<< NL >>, Edited(BaseLines, eds, 1))

Descriptions == { << "AmneziaVPN_u1" >> }

\* --------------------------------------------------------------- the system
NoError == [kind |-> "", inner |-> "", section |-> "", field |-> << >>]
EmptyHeap == [interface_data |-> << >>, peer_data |-> << >>]

Init ==
    /\ \/ fs = "absent" /\ data = << >>
       \/ fs = "present" /\ IsFile(data)
    /\ pc = "start"
    /\ error = NoError
    /\ heap = EmptyHeap
    /\ wireguard_data = << >>
    /\ parsed = << >>
    /\ builder = << >>
    /\ unpacked = << >>
    /\ formatted = << >>
    /\ json_out = << >>
    /\ token = << >>

\* WireguardConfParser.__init__ (encode.py 127-141)
Construct ==
    /\ pc = "start"
    /\ IF fs = "absent"
       THEN /\ pc' = "failed"
            /\ error' = [NoError EXCEPT !.kind = "FileNotFoundError"]
       ELSE /\ pc' = "constructed"
            /\ error' = error
    /\ UNCHANGED <<fs, data, heap, wireguard_data, parsed, builder,
                   unpacked, formatted, json_out, token>>

\* The environment removes the file, or the permission to read it, after the
\* existence check of the constructor: open() will raise an OSError
RevokeAccess ==
    /\ pc = "constructed"
    /\ fs = "present"
    /\ fs' = "unreadable"
    /\ UNCHANGED <<data, pc, error, heap, wireguard_data, parsed, builder,
                   unpacked, formatted, json_out, token>>

\* read_data (encode.py 143-159): the text, or the IOError raised (ok = FALSE)
read_data == IF fs = "present" THEN [ok |-> TRUE, text |-> data]
             ELSE [ok |-> FALSE, text |-> << >>]

\* WireguardConfParser.pack_config_data (encode.py 161-230).  error.kind is the
\* class of the exception that leaves the method, error.inner the class of the
\* exception the handler at 227-230 caught, error.section and error.field the
\* words of "Missing required <section> field: <field>".  heap holds the two
\* dicts interface_data and peer_data as the scan left them.
pack_config_data ==
    /\ pc = "constructed"
    /\ \E st \in { Scan(read_data.text) } :
       LET rd == read_data
           missing == VerifyRequired(st)
       IN  IF ~rd.ok
           THEN /\ pc' = "failed"
                /\ error' = [NoError EXCEPT !.kind = "ValueError", !.inner = "IOError"]
                /\ UNCHANGED <<heap, wireguard_data, parsed>>
           ELSE IF missing # << >>
           THEN /\ pc' = "failed"
                /\ error' = [kind |-> "ValueError", inner |-> "ValueError",
                             section |-> missing[1].section, field |-> missing[1].field]
                /\ heap' = [interface_data |-> st.interface_data,
                            peer_data |-> st.peer_data]
                /\ UNCHANGED <<wireguard_data, parsed>>
           ELSE /\ pc' = "parsed"
                /\ heap' = [interface_data |-> st.interface_data,
                            peer_data |-> st.peer_data]
                /\ wireguard_data' = << [Interface |-> "interface_data",
                                         Peer |-> "peer_data"] >>
                /\ parsed' = << [Interface |-> st.interface_data,
                                 Peer |-> st.peer_data] >>
                /\ error' = error
    /\ UNCHANGED <<fs, data, builder, unpacked, formatted, json_out, token>>

\* AmneziaWgBuilder.__init__ (encode.py 276-285)
NewBuilder ==
    /\ pc = "parsed"
    /\ \E description \in Descriptions :
          builder' = << [config_data |-> wireguard_data[1], description |-> description] >>
    /\ pc' = "builder"
    /\ UNCHANGED <<fs, data, error, heap, wireguard_data, parsed,
                   unpacked, formatted, json_out, token>>

\* AmneziaWgBuilder.get_formatted_config called on the builder
CallGetFormattedConfig ==
    /\ pc = "builder"
    /\ \E r \in { get_formatted_config(heap, builder[1].config_data) } :
          /\ heap' = r.heap
          /\ unpacked' = << r.unpacked >>
          /\ formatted' = << r.ret >>
    /\ UNCHANGED <<fs, data, pc, error, wireguard_data, parsed, builder, json_out, token>>

\* AmneziaWgBuilder.generate_json called on the builder
CallGenerateJson ==
    /\ pc = "builder"
    /\ \E r \in { generate_json(heap, builder[1]) } :
          /\ heap' = r.heap
          /\ unpacked' = << r.unpacked >>
          /\ formatted' = << r.formatted >>
          /\ json_out' = << r.ret >>
    /\ UNCHANGED <<fs, data, pc, error, wireguard_data, parsed, builder, token>>

\* AmneziaWgBuilder.build called on the builder
CallBuild ==
    /\ pc = "builder"
    /\ \E r \in { build(heap, builder[1]) } :
          /\ heap' = r.heap
          /\ unpacked' = << r.unpacked >>
          /\ formatted' = << r.formatted >>
          /\ json_out' = << r.json >>
          /\ token' = << r.ret >>
    /\ UNCHANGED <<fs, data, pc, error, wireguard_data, parsed, builder>>

Next ==
    \/ Construct
    \/ RevokeAccess
    \/ pack_config_data
    \/ NewBuilder
    \/ CallGetFormattedConfig
    \/ CallGenerateJson
    \/ CallBuild

Spec == Init /\ [][Next]_vars

\* ------------------------------------------------- the text, line by line
\* Declarative reading of a text, independent of the scan above: for each
\* line its trimmed form, whether it is a key/value line (not blank, not a
\* comment, not a marker, with an '='), whether it is bracketed, the section
\* of the most recent marker before it ("" when there is none), and the
\* trimmed text before and after its first '='.
Reading(text) ==
    LET lines == split(text, NL)
        n == Len(lines)
        trimmed == [i \in 1..n |-> strip(lines[i])]
        marker == [i \in 1..n |->
                     trimmed[i] = SectionInterface \/ trimmed[i] = SectionPeer]
        skipped == [i \in 1..n |-> trimmed[i] = << >> \/ trimmed[i][1] = "#"]
        firstEq == [i \in 1..n |->
                      IF Contains(trimmed[i], "=")
                      THEN CHOOSE p \in 1..Len(trimmed[i]) :
                              /\ trimmed[i][p] = "="
                              /\ \A q \in 1..(p - 1) : trimmed[i][q] # "="
                      ELSE 0]
        lastMarker == [i \in 1..n |->
                         LET before == { j \in 1..(i - 1) : marker[j] }
                         IN  IF before = { } THEN 0
                             ELSE CHOOSE j \in before : \A k \in before : k <= j]
    IN  [n |-> n,
         keyValue |-> [i \in 1..n |-> ~skipped[i] /\ ~marker[i] /\ firstEq[i] # 0],
         bracketed |-> [i \in 1..n |->
                          /\ trimmed[i] # << >>
                          /\ trimmed[i][1] = "["
                          /\ trimmed[i][Len(trimmed[i])] = "]"],
         section |-> [i \in 1..n |->
                        IF lastMarker[i] = 0 THEN ""
                        ELSE IF trimmed[lastMarker[i]] = SectionInterface
                        THEN "interface" ELSE "peer"],
         key |-> [i \in 1..n |-> strip(SubSeq(trimmed[i], 1, firstEq[i] - 1))],
         value |-> [i \in 1..n |->
                      strip(SubSeq(trimmed[i], firstEq[i] + 1, Len(trimmed[i])))]]

\* The map the reference gives for a section out of the lines in `lines`:
\* for each key, the value of the last of them with that key in that section
ReferenceMap(r, section, lines) ==
    { << r.key[i], r.value[i] >> :
        i \in { i \in lines :
                  /\ r.section[i] = section
                  /\ \A j \in lines :
                        j > i /\ r.section[j] = section => r.key[j] # r.key[i] } }

AsMap(d) == { << d[i].k, d[i].v >> : i \in 1..Len(d) }
UniqueKeys(d) == \A i, j \in 1..Len(d) : d[i].k = d[j].k => i = j

AllKeyValueLines(r) == { i \in 1..r.n : r.keyValue[i] }
UnbracketedKeyValueLines(r) == { i \in 1..r.n : r.keyValue[i] /\ ~r.bracketed[i] }

\* ---------------------------------------------------------------- claim C1
\* C1 as stated: the records returned by pack_config_data map each key to the
\* value of the last key/value line of the section, and bracketed lines other
\* than the two markers contribute nothing.
C1_AsStated ==
    pc = "parsed" =>
        LET r == Reading(data)
        IN  /\ AsMap(parsed[1].Interface)
                 = ReferenceMap(r, "interface", UnbracketedKeyValueLines(r))
            /\ AsMap(parsed[1].Peer)
                 = ReferenceMap(r, "peer", UnbracketedKeyValueLines(r))

\* C1 amended: the records returned by pack_config_data map each trimmed key
\* to the trimmed value of the last key/value line with that key in the
\* section; a key/value line is any line that is not blank, not a comment,
\* not one of the two markers, and holds an '=' -- a bracketed line with an
\* '=' included.  Each record holds a key once.
C1_LastWins ==
    pc = "parsed" =>
        LET r == Reading(data)
        IN  /\ AsMap(parsed[1].Interface)
                 = ReferenceMap(r, "interface", AllKeyValueLines(r))
            /\ AsMap(parsed[1].Peer)
                 = ReferenceMap(r, "peer", AllKeyValueLines(r))
            /\ UniqueKeys(parsed[1].Interface)
            /\ UniqueKeys(parsed[1].Peer)

\* a parse that succeeded on a text where a key is given twice, with two
\* values, in one section
C1_Witness ==
    /\ pc = "parsed"
    /\ LET r == Reading(data)
       IN  \E i, j \in AllKeyValueLines(r) :
              /\ i < j
              /\ r.section[i] = r.section[j]
              /\ r.section[i] # ""
              /\ r.key[i] = r.key[j]
              /\ r.value[i] # r.value[j]

\* ---------------------------------------------------------------- claim C2
ScanCompleted == pc = "parsed" \/ (pc = "failed" /\ error.inner = "ValueError")

AllRequiredPresent ==
    /\ \A i \in 1..Len(required_interface_fields) :
          required_interface_fields[i] \in DictKeys(heap.interface_data)
    /\ \A i \in 1..Len(required_peer_fields) :
          required_peer_fields[i] \in DictKeys(heap.peer_data)

\* C2: once the scan is over, pack_config_data returns a record exactly when
\* the five required keys are there; otherwise it returns none and raises a
\* ValueError that names a required field absent from its section.
C2_RequiredFields ==
    ScanCompleted =>
        /\ (pc = "parsed") <=> AllRequiredPresent
        /\ pc = "parsed" => wireguard_data # << >> /\ error = NoError
        /\ pc = "failed" =>
              /\ wireguard_data = << >>
              /\ error.kind = "ValueError"
              /\ \/ /\ error.section = "interface"
                    /\ error.field \in { required_interface_fields[i] :
                                           i \in 1..Len(required_interface_fields) }
                    /\ error.field \notin DictKeys(heap.interface_data)
                 \/ /\ error.section = "peer"
                    /\ error.field \in { required_peer_fields[i] :
                                           i \in 1..Len(required_peer_fields) }
                    /\ error.field \notin DictKeys(heap.peer_data)

\* a parse that failed for the one missing field AllowedIPs of the peer
C2_Witness ==
    /\ pc = "failed"
    /\ error.section = "peer"
    /\ error.field = << "AllowedIPs" >>
    /\ << "PublicKey" >> \in DictKeys(heap.peer_data)

\* ---------------------------------------------------------------- claim C9
\* C9: when the source cannot be opened or read, the parser fails with a file
\* access error (FileNotFoundError, IOError), never with the ValueError of
\* incomplete content.
C9_FileAccessError ==
    pc = "failed" /\ fs # "present" =>
        error.kind \in {"FileNotFoundError", "IOError"}

\* --------------------------------------------------------------- claim C10
\* C10: every key of the records returned by pack_config_data is non-empty.
C10_NonEmptyKeys ==
    pc = "parsed" =>
        /\ \A i \in 1..Len(parsed[1].Interface) : parsed[1].Interface[i].k # << >>
        /\ \A i \in 1..Len(parsed[1].Peer) : parsed[1].Peer[i].k # << >>

\* ------------------------------------------------------ declarative helpers
\* the text of v before its first c (all of v when c is absent)
Before(v, c) ==
    LET stops == { i \in 1..Len(v) : v[i] = c }
    IN  IF stops = { } THEN v
        ELSE SubSeq(v, 1, (CHOOSE i \in stops : \A j \in stops : i <= j) - 1)

ProtocolKeys == DictKeys(AMNEZIA_PROTOCOL_PARAMS)

\* ---------------------------------------------------------------- claim C3
\* C3: whatever was called on the builder, the configuration it holds is the
\* one the parser produced.
C3_OriginalUntouched ==
    builder # << >> => Deref(heap, builder[1].config_data) = parsed[1]

\* ---------------------------------------------------------------- claim C4
\* C4: the client_ip of a payload is the Address before its first comma and
\* then before its first '/', and no payload is produced when that is empty.
C4_ClientIp ==
    json_out # << >> =>
        LET ip == Before(Before(DictGet(parsed[1].Interface, << "Address" >>), ","), "/")
        IN  /\ json_out[1].containers[1].awg.last_config.client_ip = ip
            /\ ip # << >>

\* ---------------------------------------------------------------- claim C5
\* C5: hostName and port are the Endpoint split at its first ':' only, and
\* the whole Endpoint with port 39547 when it has no ':'; the two copies of
\* each in the payload agree.
C5_Endpoint ==
    json_out # << >> =>
        LET endpoint == DictGet(parsed[1].Peer, << "Endpoint" >>)
            top == json_out[1]
            awg == top.containers[1].awg
        IN  /\ Contains(endpoint, ":") =>
                  /\ top.hostName \o << ":" >> \o awg.port = endpoint
                  /\ ~Contains(top.hostName, ":")
            /\ ~Contains(endpoint, ":") =>
                  /\ top.hostName = endpoint
                  /\ awg.port = << "39547" >>
            /\ awg.last_config.hostName = top.hostName
            /\ awg.last_config.port = awg.port

\* a payload built from an Endpoint with more than one ':'
C5_Witness ==
    /\ json_out # << >>
    /\ LET endpoint == DictGet(parsed[1].Peer, << "Endpoint" >>)
       IN  Cardinality({ i \in 1..Len(endpoint) : endpoint[i] = ":" }) >= 2

\* ---------------------------------------------------------------- claim C6
\* C6: unpack_config_data writes '[Interface]', one 'Key = Value' line per
\* Interface key in order, an empty line, '[Peer]', and one 'Key = Value'
\* line per Peer key in order; a value is cut at its first comma exactly when
\* it is the value of the Interface key Address or DNS.
C6_Unpack ==
    unpacked # << >> =>
        LET I == unpacked[1].Interface
            P == unpacked[1].Peer
            shown(e) == IF e.k \in { << "Address" >>, << "DNS" >> }
                        THEN Before(e.v, ",") ELSE e.v
        IN  split(unpacked[1].out, NL)
              = << SectionInterface >>
                \o [i \in 1..Len(I) |-> I[i].k \o << " ", "=", " " >> \o shown(I[i])]
                \o << << >>, SectionPeer >>
                \o [i \in 1..Len(P) |-> P[i].k \o << " ", "=", " " >> \o P[i].v]

\* a rendering of an Interface with a comma in DNS and of a Peer with a comma
\* in AllowedIPs
C6_Witness ==
    /\ unpacked # << >>
    /\ \E i \in 1..Len(unpacked[1].Interface) :
          /\ unpacked[1].Interface[i].k = << "DNS" >>
          /\ Contains(unpacked[1].Interface[i].v, ",")
    /\ \E i \in 1..Len(unpacked[1].Peer) :
          /\ unpacked[1].Peer[i].k = << "AllowedIPs" >>
          /\ Contains(unpacked[1].Peer[i].v, ",")

\* ---------------------------------------------------------------- claim C7
\* the pieces of s between occurrences of the two characters \ and n
RECURSIVE SplitEscaped(_)
SplitEscaped(s) ==
    LET stops == { i \in 1..(Len(s) - 1) : s[i] = "\\" /\ s[i + 1] = "n" }
    IN  IF stops = { } THEN << s >>
        ELSE LET p == CHOOSE i \in stops : \A j \in stops : i <= j
             IN  << SubSeq(s, 1, p - 1) >> \o SplitEscaped(SubSeq(s, p + 2, Len(s)))

\* The 'Key = Value' lines of the Interface section of an embedded config
\* string: those after the first line and before the empty line
EmbeddedInterfaceLines(config_str) ==
    LET lines == SplitEscaped(config_str)
        blank == CHOOSE i \in 1..Len(lines) :
                    lines[i] = << >> /\ \A j \in 1..(i - 1) : lines[j] # << >>
    IN  SubSeq(lines, 2, blank - 1)

LineKey(line) == Before(line, " ")

\* C7: in the Interface section of the embedded config string the 9 protocol
\* parameters come last, in the order and with the values of the table, and
\* the other keys come before them in their order of first appearance.
C7_ParamsLast ==
    formatted # << >> =>
        LET lines == EmbeddedInterfaceLines(formatted[1])
            n == Len(lines)
            m == Len(AMNEZIA_PROTOCOL_PARAMS)
            own == SelectSeq(parsed[1].Interface, LAMBDA e : e.k \notin ProtocolKeys)
        IN  /\ n = Len(own) + m
            /\ \A i \in 1..Len(own) : LineKey(lines[i]) = own[i].k
            /\ \A i \in 1..m :
                  lines[n - m + i]
                    = AMNEZIA_PROTOCOL_PARAMS[i].k \o << " ", "=", " " >>
                      \o AMNEZIA_PROTOCOL_PARAMS[i].v

====
